---- MODULE Spec2Model ----
(***************************************************************************)
(* A model of GenerateTechFile.py, the Blender "Export Curve as TikZ"      *)
(* add-on: the Material Table (used_materials, get_material,               *)
(* write_materials), the curve serializer and style composer               *)
(* (write_object) and the export entry point (write_tex).                  *)
(*                                                                         *)
(* Text.  A Python string is modelled as a sequence of atoms.  An atom is  *)
(* a TLA+ string: either one whitespace character (" " or "\n"), or a run  *)
(* of non-whitespace characters.  Text that comes from the host (names,    *)
(* property values) is held one character per atom, so that the            *)
(* character-level functions of the code (tikzify, find) act on it as in   *)
(* Python; the literals of the code and formatted numbers are atoms of     *)
(* several characters.  Render gives the Python string itself.             *)
(*                                                                         *)
(* Numbers.  Coordinates are integers n standing for the float n.0; rgb    *)
(* and alpha are integers t standing for the float t/10.                   *)
(***************************************************************************)
EXTENDS Integers, Sequences, FiniteSets, TLC

VARIABLES pc, used_materials, first_seen, inp, out

vars == <<pc, used_materials, first_seen, inp, out>>

(***************************************************************************)
(* Bounds of the model: the objects of a selection of the export operator, *)
(* the curves of a selection whose draw order is examined, the splines of  *)
(* a curve and the points of a spline.                                     *)
(***************************************************************************)
MaxSel == 2
MaxOrder == 3
MaxSplines == 2
MaxPts == 3

(***************************************************************************)
(* Text helpers (Python str operations).                                   *)
(***************************************************************************)
IsWS(a) == a \in {" ", "\n"}

\* The concatenation of the texts ts[lo..hi] (by halves, to keep the depth
\* of evaluation logarithmic in the length).
RECURSIVE FlattenRange(_, _, _)
FlattenRange(ts, lo, hi) ==
  IF lo > hi THEN <<>>
  ELSE IF lo = hi THEN ts[lo]
  ELSE LET mid == (lo + hi) \div 2
       IN FlattenRange(ts, lo, mid) \o FlattenRange(ts, mid + 1, hi)

Flatten(ts) == FlattenRange(ts, 1, Len(ts))

\* sep.join(list)
Join(sep, ts) ==
  IF ts = <<>> THEN <<>>
  ELSE Flatten([i \in 1..(2 * Len(ts) - 1) |->
                  IF i % 2 = 1 THEN ts[(i + 1) \div 2] ELSE sep])

\* The Python string of a text.
RECURSIVE RenderRange(_, _, _)
RenderRange(t, lo, hi) ==
  IF lo > hi THEN ""
  ELSE IF lo = hi THEN t[lo]
  ELSE LET mid == (lo + hi) \div 2
       IN RenderRange(t, lo, mid) \o RenderRange(t, mid + 1, hi)

Render(t) == RenderRange(t, 1, Len(t))

\* len(s), in characters
RECURSIVE CharLenRange(_, _, _)
CharLenRange(t, lo, hi) ==
  IF lo > hi THEN 0
  ELSE IF lo = hi THEN Len(t[lo])
  ELSE LET mid == (lo + hi) \div 2
       IN CharLenRange(t, lo, mid) + CharLenRange(t, mid + 1, hi)

CharLen(t) == CharLenRange(t, 1, Len(t))

\* s.strip() is non-empty
NonBlank(t) == \E i \in 1..Len(t) : ~IsWS(t[i])

\* s.rstrip()
RStrip(t) ==
  IF NonBlank(t)
  THEN SubSeq(t, 1, CHOOSE i \in 1..Len(t) :
                      ~IsWS(t[i]) /\ \A j \in (i + 1)..Len(t) : IsWS(t[j]))
  ELSE <<>>

\* s.replace('\n', ' ')
ReplaceNL(t) == [i \in 1..Len(t) |-> IF t[i] = "\n" THEN " " ELSE t[i]]

\* The maximal runs of whitespace and of non-whitespace of t[lo..hi], in
\* order, each a text (by halves: a run that crosses the middle is joined).
MergeRuns(l, r, joined) ==
  IF joined
  THEN SubSeq(l, 1, Len(l) - 1) \o <<l[Len(l)] \o r[1]>> \o Tail(r)
  ELSE l \o r

RECURSIVE RunsRange(_, _, _)
RunsRange(t, lo, hi) ==
  IF lo > hi THEN <<>>
  ELSE IF lo = hi THEN <<<<t[lo]>>>>
  ELSE MergeRuns(RunsRange(t, lo, (lo + hi) \div 2),
                 RunsRange(t, (lo + hi) \div 2 + 1, hi),
                 IsWS(t[(lo + hi) \div 2]) = IsWS(t[(lo + hi) \div 2 + 1]))

Runs(t) == RunsRange(t, 1, Len(t))

\* s.split(): the maximal runs of non-whitespace
Split(t) == SelectSeq(Runs(t), LAMBDA run : ~IsWS(run[1]))

\* ' '.join(ps.replace('\n', ' ').split())
NormalizeWS(t) == Join(<<" ">>, Split(ReplaceNL(t)))

\* s.find('cycle'): the 0-based position of the first occurrence, -1 if none.
\* Every atom holds at least one character, so the position is 0 exactly
\* when the match starts in the first atom; the literal "cycle" of the code
\* is always an atom of its own, host text is one character per atom.
CycleAt(t, i) ==
  \/ t[i] = "cycle"
  \/ /\ i + 4 <= Len(t)
     /\ SubSeq(t, i, i + 4) = <<"c", "y", "c", "l", "e">>

find_cycle(t) ==
  IF \E i \in 1..Len(t) : CycleAt(t, i)
  THEN (CHOOSE i \in 1..Len(t) :
          CycleAt(t, i) /\ \A j \in 1..(i - 1) : ~CycleAt(t, j)) - 1
  ELSE -1

(***************************************************************************)
(* Number formatting.                                                      *)
(***************************************************************************)
Abs(n) == IF n < 0 THEN -n ELSE n

\* "%.4f" % float(n)
Fmt4f(n) == (IF n < 0 THEN "-" ELSE "") \o ToString(Abs(n)) \o ".0000"

\* str(float(n)), which is what an f-string field {x} without a format gives
StrFloat(n) == (IF n < 0 THEN "-" ELSE "") \o ToString(Abs(n)) \o ".0"

\* str(t / 10.0) for t in 0..10
StrTenths(t) == ToString(t \div 10) \o "." \o ToString(t % 10)

(***************************************************************************)
(* Utility functions.                                                      *)
(***************************************************************************)
\* s.replace(a, b) for one-character a and b
Replace1(s, a, b) == [i \in 1..Len(s) |-> IF s[i] = a THEN b ELSE s[i]]

RECURSIVE mreplace(_, _, _)
mreplace(s, chararray, newchararray) ==
  IF chararray = <<>> \/ newchararray = <<>> THEN s
  ELSE mreplace(Replace1(s, Head(chararray), Head(newchararray)),
                Tail(chararray), Tail(newchararray))

tikzify(s) ==
  IF NonBlank(s)
  THEN mreplace(s, <<"\\", ",", ":", ".">>, <<"-", "+", "_", "*">>)
  ELSE <<>>

cmp(a, b) == (IF a > b THEN 1 ELSE 0) - (IF a < b THEN 1 ELSE 0)

\* zip(*[iter(seq)] * 2): consecutive pairs, an odd last element discarded
RECURSIVE nsplit(_)
nsplit(seq) ==
  IF Len(seq) < 2 THEN <<>>
  ELSE <<<<seq[1], seq[2]>>>> \o nsplit(SubSeq(seq, 3, Len(seq)))

(***************************************************************************)
(* Host data: property values and materials.                               *)
(* A property is absent, a string (kind "str", its text) or a value of     *)
(* another type (kind "int").                                              *)
(***************************************************************************)
Absent == [kind |-> "absent", text |-> <<>>]
Str(t) == [kind |-> "str", text |-> t]
NonStr == [kind |-> "int", text |-> <<>>]

\* The materials of the scene.  has_attrs tells whether the attributes
\* rgbCol, specCol, alpha and getMode can be read from the material.
Materials ==
  << [name |-> <<"a", ".", "b">>, has_attrs |-> TRUE, rgbCol |-> <<10, 0, 0>>,
      alpha |-> 10, style |-> Absent, onlyproperties |-> Absent],
     [name |-> <<"a", "*", "b">>, has_attrs |-> TRUE, rgbCol |-> <<0, 0, 10>>,
      alpha |-> 5, style |-> Str(<<"t", "h", "i", "c", "k">>),
      onlyproperties |-> Absent],
     [name |-> <<"c">>, has_attrs |-> TRUE, rgbCol |-> <<0, 10, 0>>,
      alpha |-> 10, style |-> Str(<<"d", "a", "s", "h", "e", "d">>),
      onlyproperties |-> Str(<<"F", "a", "l", "s", "e">>)],
     [name |-> <<"d">>, has_attrs |-> FALSE, rgbCol |-> <<0, 0, 0>>,
      alpha |-> 10, style |-> Absent, onlyproperties |-> Absent] >>

MatIds == 1..Len(Materials)

\* None, as a material slot
None == 0

(***************************************************************************)
(* The Material Table.  used_materials is a Python dict: a sequence of     *)
(* entries [key, value] in insertion order, with distinct keys; the value  *)
(* is a reference to a material (its index in Materials).                  *)
(***************************************************************************)
HasKey(d, k) == \E i \in 1..Len(d) : d[i].key = k

KeyIndex(d, k) == CHOOSE i \in 1..Len(d) : d[i].key = k

\* A dict that moves a key assigned again to the end (del d[k]; d[k] = v).
DictSetMovingKey(d, k, v) ==
  Append(SelectSeq(d, LAMBDA e : e.key # k), [key |-> k, value |-> v])

\* d[k] = v: an existing key keeps its place and takes the new value
DictSet(d, k, v) ==
  IF HasKey(d, k)
  THEN [d EXCEPT ![KeyIndex(d, k)] = [key |-> k, value |-> v]]
  ELSE Append(d, [key |-> k, value |-> v])

\* get_material(material): the returned name and the table after the call
get_material(material, um) ==
  IF material = None
  THEN [ret |-> <<>>, um |-> um]
  ELSE LET mat_name == tikzify(Materials[material].name)
       IN [ret |-> mat_name, um |-> DictSet(um, mat_name, material)]

\* s.lower() of a host text, for the letters the model's values hold
Lower1(c) ==
  CASE c = "F" -> "f" [] c = "A" -> "a" [] c = "L" -> "l" [] c = "S" -> "s"
    [] c = "E" -> "e" [] c = "T" -> "t" [] c = "R" -> "r" [] c = "U" -> "u"
    [] OTHER -> c

Lower(t) == [i \in 1..Len(t) |-> Lower1(t[i])]

\* The truth value of material.properties['onlyproperties'] after lines
\* 239-241, or of ONLY_PROPERTIES when the lookup fails.
proponly_of(m, ONLY_PROPERTIES) ==
  CASE m.onlyproperties.kind = "absent" -> ONLY_PROPERTIES
    [] m.onlyproperties.kind = "int" -> TRUE
    [] OTHER ->
         IF m.onlyproperties.text = <<>> THEN FALSE
         ELSE Lower(m.onlyproperties.text) \notin
                {<<"0">>, <<"f", "a", "l", "s", "e">>}

\* The text one material adds to c in the loop of write_materials, and
\* whether the body raised.
material_code(m, ONLY_PROPERTIES) ==
  LET mat_name == tikzify(m.name)
      proponly == proponly_of(m, ONLY_PROPERTIES)
      matopts  == IF m.style.kind = "absent" THEN <<>> ELSE m.style.text
      has_opts == m.style.kind = "int" \/ matopts # <<>>
      derived  == ~(proponly /\ has_opts)
      colour   == IF derived
                  THEN <<"\\definecolor{">> \o mat_name \o <<"_col}{rgb}{">>
                       \o <<StrTenths(m.rgbCol[1]), ",", StrTenths(m.rgbCol[2]),
                            ",", StrTenths(m.rgbCol[3]), "}", "\n">>
                  ELSE <<>>
      options  == (IF derived THEN <<mat_name \o <<"_col">>>> ELSE <<>>)
                  \o (IF derived /\ m.alpha < 10
                      THEN <<<<"opacity=", StrTenths(m.alpha)>>>> ELSE <<>>)
                  \o (IF has_opts THEN <<matopts>> ELSE <<>>)
  IN IF ~m.has_attrs \/ m.style.kind = "int"
     THEN [raised |-> TRUE, text |-> <<>>]
     ELSE [raised |-> FALSE,
           text |-> colour \o <<"\\tikzstyle{">> \o mat_name \o <<"}=", " ", "[">>
                    \o Join(<<",">>, options) \o <<"]", "\n">>]

RECURSIVE materials_loop(_, _, _)
materials_loop(um, ONLY_PROPERTIES, c) ==
  IF um = <<>> THEN [raised |-> FALSE, text |-> c]
  ELSE LET r == material_code(Materials[Head(um).value], ONLY_PROPERTIES)
       IN IF r.raised THEN [raised |-> TRUE, text |-> <<>>]
          ELSE materials_loop(Tail(um), ONLY_PROPERTIES, c \o r.text)

write_materials(um, ONLY_PROPERTIES) ==
  materials_loop(um, ONLY_PROPERTIES,
    <<"%", " ", "Materials", " ", "section", " ", "\n">>)

(***************************************************************************)
(* textwrap.wrap(ps, 80, subsequent_indent="  ", break_long_words=False).  *)
(* The text is cut into chunks, the maximal runs of whitespace and of      *)
(* non-whitespace (the host texts of the model hold no hyphenated words,   *)
(* the only other place where textwrap cuts), and the chunks are packed    *)
(* greedily into lines.                                                    *)
(***************************************************************************)
Width == 80

\* _munge_whitespace and _split
Chunks(t) == Runs(ReplaceNL(t))

IsWSChunk(c) == IsWS(c[1])

\* How many of the leading chunks fit in `room` characters.
RECURSIVE Fit(_, _)
Fit(chunks, room) ==
  IF chunks = <<>> \/ CharLen(Head(chunks)) > room THEN 0
  ELSE 1 + Fit(Tail(chunks), room - CharLen(Head(chunks)))

\* subsequent_indent, for every line but the first
LineIndent(lines) == IF lines # <<>> THEN <<" ", " ">> ELSE <<>>

\* Whitespace at the start of a line is dropped, except on the first line.
LineChunks(chunks, lines) ==
  IF IsWSChunk(Head(chunks)) /\ lines # <<>> THEN Tail(chunks) ELSE chunks

\* The number of chunks of the line: the k that fit, or one chunk that is
\* longer than the line (break_long_words=False).
Taken(cs, width, k) ==
  IF k < Len(cs) /\ CharLen(cs[k + 1]) > width /\ k = 0 THEN 1 ELSE k

\* Whitespace at the end of a line is dropped.
DropTrailingWS(cur) ==
  IF cur # <<>> /\ IsWSChunk(cur[Len(cur)])
  THEN SubSeq(cur, 1, Len(cur) - 1) ELSE cur

AddLine(lines, indent, kept) ==
  IF kept = <<>> THEN lines ELSE Append(lines, indent \o Flatten(kept))

RECURSIVE wrap_chunks(_, _)

wrap_take(cs, lines, indent, taken) ==
  wrap_chunks(SubSeq(cs, taken + 1, Len(cs)),
              AddLine(lines, indent, DropTrailingWS(SubSeq(cs, 1, taken))))

wrap_line(cs, lines, indent) ==
  IF cs = <<>> THEN lines
  ELSE wrap_take(cs, lines, indent,
                 Taken(cs, Width - Len(indent), Fit(cs, Width - Len(indent))))

wrap_chunks(chunks, lines) ==
  IF chunks = <<>> THEN lines
  ELSE wrap_line(LineChunks(chunks, lines), lines, LineIndent(lines))

wrap(t) == wrap_chunks(Chunks(t), <<>>)

(***************************************************************************)
(* Host data: scene objects.                                               *)
(* A point is <<x, y>>; a spline has a type, the cyclic flag and its       *)
(* points (bezier_points with handles for BEZIER, points for POLY).        *)
(***************************************************************************)
\* "(+%.4f,+%.4f)" % (x, y)
KnotStr(p) == "(+" \o Fmt4f(p[1]) \o ",+" \o Fmt4f(p[2]) \o ")"

\* f"(+{point.co.x}.4f,+{point.co.y}.4f)"
CoordStr(p) == "(+" \o StrFloat(p[1]) \o ".4f,+" \o StrFloat(p[2]) \o ".4f)"

\* "controls (+%.4f,+%.4f) and (+%.4f,+%.4f)" % (h1.x, h1.y, h2.x, h2.y)
ControlsStr(h) ==
  <<"controls", " ", KnotStr(h[1]), " ", "and", " ", KnotStr(h[2])>>

\* get_property(obj, name): the custom property, if any, then the game
\* property if it is of type STRING and not blank.
get_property(custom, game) ==
  (IF custom.kind # "absent" THEN <<custom>> ELSE <<>>)
  \o (IF game.kind = "str" /\ NonBlank(game.text) THEN <<game>> ELSE <<>>)

\* ",".join(list) raises TypeError on an item that is not a string
JoinRaises(props) == \E i \in 1..Len(props) : props[i].kind # "str"

PropTexts(props) == [i \in 1..Len(props) |-> props[i].text]

(***************************************************************************)
(* write_object: the BEZIER branch (lines 294-323).  The result is the     *)
(* text added to ps, and whether an IndexError was raised.                 *)
(***************************************************************************)
RECURSIVE HandleList(_)
HandleList(pts) ==
  IF pts = <<>> THEN <<>>
  ELSE <<Head(pts).handle_left, Head(pts).handle_right>> \o HandleList(Tail(pts))

\* A closed spline whose handle list is left as it was built.
bezier_handles_unrotated(handles, cyclic) ==
  IF cyclic THEN handles ELSE SubSeq(handles, 2, Len(handles) - 1)

\* Lines 305-314.
bezier_handles(handles, cyclic) ==
  IF cyclic THEN Tail(handles) \o <<Head(handles)>>
  ELSE SubSeq(handles, 2, Len(handles) - 1)

RECURSIVE Segments(_, _)
Segments(hh, ks) ==
  IF hh = <<>> \/ ks = <<>> THEN <<>>
  ELSE <<" ", " ", "..", " ">> \o ControlsStr(Head(hh))
       \o <<" ", "..", " ", Head(ks), "\n">> \o Segments(Tail(hh), Tail(ks))

bezier_ps(spline) ==
  LET pts == spline.bezier_points
      knots0 == [i \in 1..Len(pts) |-> KnotStr(pts[i].co)]
  IN IF pts = <<>> THEN [raised |-> TRUE, text |-> <<>>]
     ELSE LET handles == bezier_handles(HandleList(pts), spline.use_cyclic_u)
              knots == IF spline.use_cyclic_u THEN Append(knots0, knots0[1])
                       ELSE knots0
              hh == nsplit(handles)
          IN [raised |-> FALSE,
              text |-> <<knots[1], "\n">> \o Segments(hh, Tail(knots))
                       \o (IF spline.use_cyclic_u
                           THEN <<" ", " ", "--", " ", "cycle", "\n">> ELSE <<>>)]

(***************************************************************************)
(* write_object: the POLY branch (lines 324-354).  The result is the new   *)
(* value of ps, and whether an exception was raised.                       *)
(***************************************************************************)
\* The loop of lines 346-352, from the i-th element of coords[1:] on.
RECURSIVE wrapped_segments(_, _)
wrapped_segments(cs, i) ==
  IF cs = <<>> THEN <<>>
  ELSE (IF i % 3 # 0
        THEN <<"--", " ">> \o Head(cs)
        ELSE <<" ", " ", "--", " ">> \o Head(cs) \o <<"\n", " ", " ">>)
       \o wrapped_segments(Tail(cs), i + 1)

poly_ps(ps, obj, spline, USE_PLOTPATH, WRAP_LINES) ==
  LET coords0 == [i \in 1..Len(spline.points) |-> <<CoordStr(spline.points[i])>>]
  IN IF USE_PLOTPATH
     THEN LET plotopts == get_property(obj.plotstyle, obj.plotstyle_game)
              poptstr  == IF plotopts # <<>>
                          THEN <<"[">> \o Join(<<",">>, PropTexts(plotopts)) \o <<"]">>
                          ELSE <<>>
              ps1 == ps \o <<" ", "plot">> \o poptstr
                     \o <<" ", "coordinates", " ", "{">>
                     \o Join(<<" ">>, coords0) \o <<"}">>
                     \o (IF spline.use_cyclic_u THEN <<" ", "--", " ", "cycle">>
                         ELSE <<>>)
          IN IF JoinRaises(plotopts) THEN [raised |-> TRUE, text |-> ps]
             ELSE [raised |-> FALSE,
                   text |-> IF WRAP_LINES THEN Join(<<"\n">>, wrap(ps1)) ELSE ps1]
     ELSE IF spline.use_cyclic_u /\ coords0 = <<>>
          THEN [raised |-> TRUE, text |-> ps]
     ELSE LET coords == IF spline.use_cyclic_u
                        THEN coords0 \o <<coords0[1], <<"cycle", "\n", " ", " ">>>>
                        ELSE coords0
          IN IF WRAP_LINES
             THEN IF coords = <<>> THEN [raised |-> TRUE, text |-> ps]
                  ELSE [raised |-> FALSE,
                        text |-> ps \o coords[1] \o <<"\n", " ", " ">>
                                 \o wrapped_segments(Tail(coords), 1)]
             ELSE [raised |-> FALSE,
                   text |-> ps \o Join(<<" ", "--", " ">>, coords)]

\* A loop whose second branch is an else: every other kind taken as POLY.
spline_kind_any_as_poly(spline) ==
  IF spline.type = "BEZIER" THEN "BEZIER" ELSE "POLY"

\* The branch a spline takes in the loop of lines 293-356.
spline_kind(spline) ==
  IF spline.type \in {"BEZIER", "POLY"} THEN spline.type ELSE "continue"

\* The loop over curvedata.splines (lines 293-356): ps after the splines
\* from the i-th on, starting from ps.
AddTo(ps, b) == [raised |-> b.raised, text |-> ps \o b.text]

\* The body of the loop for one spline: ps after it.
spline_ps(ps, obj, spline, kind, USE_PLOTPATH, WRAP_LINES) ==
  CASE kind = "BEZIER" -> AddTo(ps, bezier_ps(spline))
    [] kind = "POLY" -> poly_ps(ps, obj, spline, USE_PLOTPATH, WRAP_LINES)
    [] OTHER -> [raised |-> FALSE, text |-> ps]

RECURSIVE splines_loop(_, _, _, _, _)

splines_next(r, obj, i, USE_PLOTPATH, WRAP_LINES) ==
  IF r.raised THEN r
  ELSE splines_loop(r.text, obj, i + 1, USE_PLOTPATH, WRAP_LINES)

splines_loop(ps, obj, i, USE_PLOTPATH, WRAP_LINES) ==
  IF i > Len(obj.splines) THEN [raised |-> FALSE, text |-> ps]
  ELSE splines_next(spline_ps(ps, obj, obj.splines[i],
                              spline_kind(obj.splines[i]),
                              USE_PLOTPATH, WRAP_LINES),
                    obj, i, USE_PLOTPATH, WRAP_LINES)

(***************************************************************************)
(* write_object (lines 267-412).  o holds the options of the export;       *)
(* empties is the dict of line 439 (parent id -> the selected markers of   *)
(* that parent); um is used_materials before the call.  The result holds   *)
(* the returned text s, used_materials after the call, whether an          *)
(* exception left the function, the materials passed to get_material       *)
(* (reg) and, for a curve that reached the style composer, ps as tested    *)
(* at line 364, the option list and the geometry put in the statement.     *)
(***************************************************************************)
\* The first material of the slots that is not None (lines 377-383).
RECURSIVE first_material(_)
first_material(materials) ==
  IF materials = <<>> THEN None
  ELSE IF Head(materials) # None THEN Head(materials)
  ELSE first_material(Tail(materials))

\* Lines 366-371.
transform_options(obj) ==
  (IF obj.location[1] # 0
   THEN <<<<"xshift=" \o Fmt4f(obj.location[1]) \o "cm">>>> ELSE <<>>)
  \o (IF obj.location[2] # 0
      THEN <<<<"yshift=" \o Fmt4f(obj.location[2]) \o "cm">>>> ELSE <<>>)
  \o (IF obj.rot_z # 0 THEN <<<<"rotate=" \o Fmt4f(obj.rot_z)>>>> ELSE <<>>)
  \o (IF obj.scale[1] # 1 THEN <<<<"xscale=" \o Fmt4f(obj.scale[1])>>>> ELSE <<>>)
  \o (IF obj.scale[2] # 1 THEN <<<<"yscale=" \o Fmt4f(obj.scale[2])>>>> ELSE <<>>)

\* Lines 393-400.  The curves of the model that have markers are neither
\* rotated nor scaled, so both matrix expressions give the difference of
\* the two world translations.
RECURSIVE empties_str(_, _)
empties_str(obj, es) ==
  IF es = <<>> THEN <<>>
  ELSE <<" ", " ",
         "(+" \o Fmt4f(Head(es).world[1] - obj.world[1]) \o ",+"
              \o Fmt4f(Head(es).world[2] - obj.world[2]) \o ")",
         " ", "coordinate", " ", "(">> \o Head(es).name \o <<")", "\n">>
       \o empties_str(obj, Tail(es))

\* A composer without the test of line 364.
fill_options_any(o, ps) == IF o.FILL_CLOSED_CURVE THEN <<<<"fill">>>> ELSE <<>>

\* Lines 363-365.
fill_options(o, ps) ==
  IF o.FILL_CLOSED_CURVE /\ find_cycle(ps) > 0 THEN <<<<"fill">>>> ELSE <<>>

NoResult(s, um) ==
  [s |-> s, um |-> um, raised |-> FALSE, composed |-> FALSE,
   ps |-> <<>>, options |-> <<>>, geometry |-> <<>>, reg |-> <<>>]

Raised(um, reg) ==
  [s |-> <<>>, um |-> um, raised |-> TRUE, composed |-> FALSE,
   ps |-> <<>>, options |-> <<>>, geometry |-> <<>>, reg |-> reg]

\* Line 292: the comment line with the name of the curve.
name_comment(obj) == <<"%", " ">> \o obj.name \o <<"\n">>

\* Lines 374-383: the material looked up, None if there is none.
curve_material(obj, o) ==
  IF o.EXPORT_MATERIALS /\ obj.mats_ok
  THEN first_material(obj.materials) ELSE None

\* What is passed to get_material by the call.
Registered(mat) == IF mat # None THEN <<mat>> ELSE <<>>

\* Lines 360-386: the option list.
curve_options(obj, o, ps, mat, ret, extraopts) ==
  (IF o.DRAW_CURVE THEN <<<<"draw">>>> ELSE <<>>)
  \o fill_options(o, ps)
  \o (IF o.TRANSFORM_CURVE THEN transform_options(obj) ELSE <<>>)
  \o (IF mat # None THEN <<ret>> ELSE <<>>)
  \o PropTexts(extraopts)

\* Lines 391-400.
curve_empties(obj, empties, o) ==
  IF o.EMPTIES /\ HasKey(empties, obj.id)
  THEN empties_str(obj, empties[KeyIndex(empties, obj.id)].value)
  ELSE <<>>

\* Lines 402-403 and the rstrip of lines 405 and 407.
curve_geometry(o, ps) ==
  RStrip(IF ~o.WRAP_LINES THEN NormalizeWS(ps) ELSE ps)

\* Lines 404-407.
curve_statement(optstr, emptstr, geometry) ==
  IF CharLen(optstr) > 50 \/ emptstr # <<>>
  THEN <<"\\path[">> \o optstr \o <<"]", "\n">> \o emptstr
       \o <<" ", " ">> \o geometry \o <<";", "\n">>
  ELSE <<"\\path[">> \o optstr \o <<"]", " ">> \o geometry \o <<";", "\n">>

curve_result(obj, um, mat, ps, options, emptstr, geometry) ==
  [s |-> name_comment(obj)
         \o curve_statement(Join(<<",">>, options), emptstr, geometry),
   um |-> um, raised |-> FALSE, composed |-> TRUE,
   ps |-> ps, options |-> options, geometry |-> geometry,
   reg |-> Registered(mat)]

\* Lines 360-407, with the material found and the result of get_material.
curve_compose(obj, empties, o, ps, mat, gm, extraopts) ==
  IF JoinRaises(extraopts) THEN Raised(gm.um, Registered(mat))
  ELSE curve_result(obj, gm.um, mat, ps,
                    curve_options(obj, o, ps, mat, gm.ret, extraopts),
                    curve_empties(obj, empties, o), curve_geometry(o, ps))

curve_lookup(obj, empties, o, um, ps, mat) ==
  curve_compose(obj, empties, o, ps, mat, get_material(mat, um),
                get_property(obj.style, obj.style_game))

\* Lines 358-407, with the result of the loop over the splines.
curve_after_splines(obj, empties, o, um, sp) ==
  IF sp.raised THEN Raised(um, <<>>)
  ELSE IF sp.text = <<>> THEN NoResult(name_comment(obj), um)
  ELSE curve_lookup(obj, empties, o, um, sp.text, curve_material(obj, o))

write_curve(obj, empties, o, um) ==
  curve_after_splines(obj, empties, o, um,
    splines_loop(<<>>, obj, 1, o.USE_PLOTPATH, o.WRAP_LINES))

write_object(obj, empties, o, um) ==
  IF obj.type \notin {"CURVE", "Empty"} THEN NoResult(<<>>, um)
  ELSE IF obj.type = "CURVE" THEN write_curve(obj, empties, o, um)
  ELSE IF o.EMPTIES /\ obj.parent = None
       THEN NoResult(<<"\\coordinate", " ", "(">> \o tikzify(obj.name)
                     \o <<")", " ", "at", " ",
                          "(" \o Fmt4f(obj.world[1]) \o "," \o Fmt4f(obj.world[2])
                              \o ");", "\n">>, um)
       ELSE NoResult(<<>>, um)

(***************************************************************************)
(* write_tex (lines 418-493).                                              *)
(***************************************************************************)
standalone_template(v) ==
  <<"\n", "\\documentclass{article}", "\n", "\\usepackage{tikz}", "\n">>
  \o v.preamble \o <<"\n">> \o v.materials
  \o <<"\n", "\\begin{document}", "\n", "\\begin{tikzpicture}", "\n">>
  \o v.pathcode
  \o <<"\n", "\\end{tikzpicture}", "\n", "\\end{document}", "\n">>

fig_template(v) ==
  <<"\n">> \o v.materials \o <<"\n", "\\begin{tikzpicture}", "\n">>
  \o v.pathcode \o <<"\n", "\\end{tikzpicture}", "\n">>

code_only_template(v) == v.pathcode

\* Lines 460-472: the template chosen.
select_template(STANDALONE, CODE_ONLY) ==
  IF STANDALONE THEN "standalone" ELSE IF CODE_ONLY THEN "code_only" ELSE "fig"

\* template % templatevars
apply_template(template, v) ==
  CASE template = "standalone" -> standalone_template(v)
    [] template = "code_only" -> code_only_template(v)
    [] OTHER -> fig_template(v)

\* A comparison with its arguments exchanged.
z_comp_descending(a, b) == cmp(b.world[3], a.world[3])

\* Lines 426-429.
z_comp(a, b) == cmp(a.world[3], b.world[3])

\* sorted(objects, key=functools.cmp_to_key(z_comp)): a stable sort.  x is
\* put after every element that does not compare greater than it.
RECURSIVE insert_sorted(_, _)
insert_sorted(x, q) ==
  IF q = <<>> THEN <<x>>
  ELSE IF z_comp(x, Head(q)) < 0 THEN <<x>> \o q
  ELSE <<Head(q)>> \o insert_sorted(x, Tail(q))

RECURSIVE sorted(_)
sorted(objects) ==
  IF objects = <<>> THEN <<>>
  ELSE insert_sorted(objects[Len(objects)],
                     sorted(SubSeq(objects, 1, Len(objects) - 1)))

\* Lines 438-444.
RECURSIVE empties_dict_of(_, _)
empties_dict_of(empties_wp, d) ==
  IF empties_wp = <<>> THEN d
  ELSE LET empty == Head(empties_wp)
           d1 == IF HasKey(d, empty.parent)
                 THEN [d EXCEPT ![KeyIndex(d, empty.parent)].value = Append(@, empty)]
                 ELSE Append(d, [key |-> empty.parent, value |-> <<empty>>])
       IN empties_dict_of(Tail(empties_wp), d1)

\* The loop of lines 446-448 from the objects objs on: the code so far, the
\* table, the materials registered, the ids of the objects written.
objects_step(acc, obj, r) ==
  [code |-> acc.code \o r.s, um |-> r.um, raised |-> r.raised,
   reg |-> acc.reg \o r.reg,
   parts |-> Append(acc.parts, [id |-> obj.id, s |-> r.s])]

RECURSIVE objects_loop(_, _, _, _)
objects_loop(objs, empties, o, acc) ==
  IF objs = <<>> \/ acc.raised THEN acc
  ELSE objects_loop(Tail(objs), empties, o,
         objects_step(acc, Head(objs),
                      write_object(Head(objs), empties, o, acc.um)))

\* '%% Generated by tikz_export.py v %s \n' % str(bl_info["version"])
file_header ==
  <<"%", " ", "Generated", " ", "by", " ", "tikz_export.py", " ", "v", " ",
    "(2,", " ", "0)", " ", "\n">>

NoFile == [exists |-> FALSE, content |-> <<>>]

\* What the sink does with the writes: the file write succeeds ("ok") or
\* fails on open, on the write of the header or on the write of the
\* document; the clipboard copy succeeds ("ok") or fails ("fail").
FileOutcomes == {"ok", "open", "header", "document"}
ClipboardOutcomes == {"ok", "fail"}

\* copy_to_clipboard(text)
copy_to_clipboard(text, sink) == sink = "ok"

Aborted(um, status) ==
  [status |-> status, raised |-> FALSE, um |-> um, assembled |-> FALSE,
   template |-> "none", code |-> <<>>, matcode |-> <<>>, s |-> <<>>,
   reg |-> <<>>, parts |-> <<>>, file |-> NoFile, clipboard |-> <<>>,
   wrote |-> FALSE]

\* An exception leaves write_tex: there is no status, nothing is written.
Propagated(um, reg, parts) ==
  [Aborted(um, "none") EXCEPT !.raised = TRUE, !.reg = reg, !.parts = parts]

\* Lines 436-437: the selected markers that have a parent.
empties_with_parent(objects) ==
  SelectSeq(objects, LAMBDA obj : obj.type = "Empty" /\ obj.parent # None)

\* Lines 455-458.
preamble_code(context) ==
  IF context.preamble.kind = "absent" THEN <<>> ELSE context.preamble.text

\* Lines 460-474: the document, before it is written.
Assembled(loop, matcode, template, s) ==
  [status |-> "tikz_export ended ...", raised |-> FALSE,
   um |-> loop.um, assembled |-> TRUE, template |-> template,
   code |-> loop.code, matcode |-> matcode, s |-> s,
   reg |-> loop.reg, parts |-> loop.parts, file |-> NoFile,
   clipboard |-> <<>>, wrote |-> FALSE]

assemble(context, o, loop, mats) ==
  Assembled(loop, mats.text, select_template(o.STANDALONE, o.CODE_ONLY),
            apply_template(select_template(o.STANDALONE, o.CODE_ONLY),
                           [pathcode |-> loop.code,
                            preamble |-> preamble_code(context),
                            materials |-> mats.text]))

\* Lines 475-491: the write to the file or to the clipboard.
write_sink(o, sink, done) ==
  IF ~o.CLIPBOARD_OUTPUT
  THEN CASE sink = "ok" ->
              [done EXCEPT !.status = "File sucesfully writen",
                           !.file = [exists |-> TRUE,
                                     content |-> file_header \o done.s],
                           !.wrote = TRUE]
         [] sink = "open" ->
              [done EXCEPT !.status = "Failed to write file"]
         [] sink = "header" ->
              [done EXCEPT !.status = "Failed to write file",
                           !.file = [exists |-> TRUE, content |-> <<>>]]
         [] OTHER ->
              [done EXCEPT !.status = "Failed to write file",
                           !.file = [exists |-> TRUE,
                                     content |-> file_header]]
  ELSE IF copy_to_clipboard(done.s, sink)
       THEN [done EXCEPT !.clipboard = done.s, !.wrote = TRUE]
       ELSE [done EXCEPT !.status = "Failed  to write to clipboard"]

\* Lines 455-493, with the result of write_materials.
after_materials(context, o, sink, loop, mats) ==
  IF mats.raised THEN Propagated(loop.um, loop.reg, loop.parts)
  ELSE write_sink(o, sink, assemble(context, o, loop, mats))

\* Lines 450-493, with the result of the loop over the objects.
after_objects(context, o, sink, loop) ==
  IF loop.raised THEN Propagated(loop.um, loop.reg, loop.parts)
  ELSE after_materials(context, o, sink, loop,
         IF o.EXPORT_MATERIALS
         THEN write_materials(loop.um, o.ONLY_PROPERTIES)
         ELSE [raised |-> FALSE, text |-> <<>>])

write_tex(context, o, um, sink) ==
  IF Len(context.selected_objects) = 0
  THEN Aborted(um, "ERROR: Please select at least one curve")
  ELSE after_objects(context, o, sink,
         objects_loop(sorted(context.selected_objects),
                      empties_dict_of(
                        empties_with_parent(context.selected_objects), <<>>),
                      o,
                      [code |-> <<>>, um |-> um, raised |-> FALSE,
                       reg |-> <<>>, parts |-> <<>>]))

(***************************************************************************)
(* The Material Table on its own: any sequence of registrations, and the   *)
(* rendering of the table.  first_seen is a history variable of this       *)
(* specification: it records, for each normalized name, the material       *)
(* first registered under it and whether the name was registered again,    *)
(* in the order of the first registrations.  The code does not read it.    *)
(***************************************************************************)
NoteFirst(fs, material) ==
  IF material = None THEN fs
  ELSE LET k == tikzify(Materials[material].name)
       IN IF HasKey(fs, k)
          THEN [fs EXCEPT ![KeyIndex(fs, k)].again = TRUE]
          ELSE Append(fs, [key |-> k, value |-> material, again |-> FALSE])


InitMaterials ==
  /\ pc = "idle"
  /\ used_materials = <<>>
  /\ first_seen = <<>>
  /\ inp = [op |-> "none"]
  /\ out = [op |-> "none"]

Register ==
  \E material \in MatIds \cup {None} :
    LET r == get_material(material, used_materials)
    IN /\ pc' = "registered"
       /\ used_materials' = r.um
       /\ first_seen' = NoteFirst(first_seen, material)
       /\ inp' = [op |-> "get_material", material |-> material]
       /\ out' = [op |-> "get_material", ret |-> r.ret]

RenderMaterials ==
  \E ONLY_PROPERTIES \in BOOLEAN :
    LET r == write_materials(used_materials, ONLY_PROPERTIES)
    IN /\ pc' = "rendered"
       /\ inp' = [op |-> "write_materials", ONLY_PROPERTIES |-> ONLY_PROPERTIES]
       /\ out' = [op |-> "write_materials", raised |-> r.raised, text |-> r.text]
       /\ UNCHANGED <<used_materials, first_seen>>

NextMaterials == Register \/ RenderMaterials

SpecMaterials == InitMaterials /\ [][NextMaterials]_vars

(***************************************************************************)
(* The scenes that the serializer is run on.                               *)
(***************************************************************************)
\* The i-th point of a spline, and the i-th control point of a Bezier
\* spline with its two handles.
Pt(i) ==
  CASE i = 1 -> <<0, 0>> [] i = 2 -> <<1, 0>> [] i = 3 -> <<1, 1>>
    [] OTHER -> <<-1, i>>

Cp(i) ==
  [co |-> Pt(i), handle_left |-> <<Pt(i)[1] - 1, Pt(i)[2] - 2 * i>>,
   handle_right |-> <<Pt(i)[1] + 1, Pt(i)[2] + i>>]

MkSpline(type, cyclic, n) ==
  [type |-> type, use_cyclic_u |-> cyclic,
   bezier_points |-> IF type = "BEZIER" THEN [i \in 1..n |-> Cp(i)] ELSE <<>>,
   points |-> IF type = "BEZIER" THEN <<>> ELSE [i \in 1..n |-> Pt(i)]]

SplineSet ==
  {MkSpline(t, c, n) : t \in {"BEZIER", "POLY"}, c \in BOOLEAN, n \in 1..MaxPts}
  \cup {MkSpline("NURBS", FALSE, 2)}

\* The splines a curve may hold after its first one.
LaterSplines ==
  {MkSpline(t, c, 2) : t \in {"BEZIER", "POLY"}, c \in BOOLEAN}
  \cup {MkSpline("NURBS", FALSE, 2)}

\* The spline lists of a curve: empty, or a first spline of SplineSet
\* followed by at most n - 1 of LaterSplines.
RECURSIVE SplineLists(_)
SplineLists(n) ==
  IF n = 0 THEN {<<>>}
  ELSE IF n = 1 THEN {<<>>} \cup {<<x>> : x \in SplineSet}
  ELSE LET shorter == SplineLists(n - 1)
       IN shorter \cup {Append(q, x) : q \in {r \in shorter : Len(r) = n - 1},
                                        x \in LaterSplines}

BaseObject(id, name, type) ==
  [id |-> id, name |-> name, type |-> type, location |-> <<0, 0, 0>>,
   rot_z |-> 0, scale |-> <<1, 1, 1>>, world |-> <<0, 0, 0>>, parent |-> None,
   splines |-> <<>>, materials |-> <<>>, mats_ok |-> TRUE,
   style |-> Absent, style_game |-> Absent,
   plotstyle |-> Absent, plotstyle_game |-> Absent]

\* The variants of a curve object: how it is placed, which materials and
\* which properties it has.
Plain(obj) == obj

Styled(obj) ==
  [obj EXCEPT !.location = <<2, -1, 0>>, !.world = <<2, -1, 0>>,
              !.rot_z = 1, !.scale = <<2, 1, 1>>,
              !.materials = <<None, 2, 3>>,
              !.style = Str(<<"t", "h", "i", "n">>),
              !.style_game = Str(<<"f", "i", "l", "l", "=", "r", "e", "d">>),
              !.plotstyle = Str(<<"s", "m", "o", "o", "t", "h">>)]

SmoothCycle(obj) ==
  [obj EXCEPT !.plotstyle =
     Str(<<"s", "m", "o", "o", "t", "h", " ", "c", "y", "c", "l", "e">>),
              !.materials = <<1>>]

WithMarker(obj) == [obj EXCEPT !.world = <<1, 1, 0>>, !.location = <<1, 1, 0>>]

Marker(id, name, parent, world) ==
  [BaseObject(id, name, "Empty") EXCEPT !.parent = parent, !.world = world,
                                        !.location = world]

Variants == {"plain", "styled", "smooth cycle", "marker"}

MkCurve(splines, variant) ==
  LET obj == [BaseObject(1, <<"C", "1">>, "CURVE") EXCEPT !.splines = splines]
  IN CASE variant = "plain" -> Plain(obj)
       [] variant = "styled" -> Styled(obj)
       [] variant = "smooth cycle" -> SmoothCycle(obj)
       [] OTHER -> WithMarker(obj)

\* The markers selected with the curve, as the dict of line 439.
MarkersOf(variant) ==
  IF variant = "marker"
  THEN <<[key |-> 1, value |-> <<Marker(2, <<"P">>, 1, <<3, 0, 0>>)>>]>>
  ELSE <<>>

ObjectOptions ==
  [USE_PLOTPATH : BOOLEAN, WRAP_LINES : BOOLEAN, DRAW_CURVE : BOOLEAN,
   FILL_CLOSED_CURVE : BOOLEAN, TRANSFORM_CURVE : BOOLEAN,
   EXPORT_MATERIALS : BOOLEAN, EMPTIES : BOOLEAN]

\* An option is varied for the variants whose output it can change: a
\* curve at the origin has no transform options, a curve without material
\* slots no material, a curve without markers no marker coordinates.
OptionsFor(variant) ==
  {o \in ObjectOptions :
     /\ o.TRANSFORM_CURVE => variant \in {"styled", "marker"}
     /\ o.EXPORT_MATERIALS => variant \in {"styled", "smooth cycle"}
     /\ o.EMPTIES => variant = "marker"}

\* Objects that are not curves: a mesh, a top-level marker, a marker with
\* a parent.
OtherObjects ==
  { BaseObject(3, <<"M">>, "MESH"),
    Marker(4, <<"Q", ".", "1">>, None, <<1, -1, 0>>),
    Marker(2, <<"P">>, 1, <<3, 0, 0>>) }

InitObject ==
  /\ pc = "ready"
  /\ used_materials = <<>>
  /\ first_seen = <<>>
  /\ \/ \E splines \in SplineLists(MaxSplines), v \in Variants :
          \E o \in OptionsFor(v) :
            inp = [op |-> "write_object", obj |-> MkCurve(splines, v),
                   empties |-> MarkersOf(v), o |-> o]
     \/ \E obj \in OtherObjects, o \in ObjectOptions :
          /\ ~o.TRANSFORM_CURVE /\ ~o.EXPORT_MATERIALS
          /\ inp = [op |-> "write_object", obj |-> obj, empties |-> <<>>, o |-> o]
  /\ out = [op |-> "none"]

WriteObject ==
  /\ pc = "ready"
  /\ out' = [op |-> "write_object"]
               @@ write_object(inp.obj, inp.empties, inp.o, used_materials)
  /\ used_materials' = out'.um
  /\ pc' = "done"
  /\ UNCHANGED <<inp, first_seen>>

NextObject == WriteObject

SpecObject == InitObject /\ [][NextObject]_vars

(***************************************************************************)
(* The export operator (TechFileExport, lines 496-548) over the life of    *)
(* the process: invoke opens the dialog, where the user has a selection    *)
(* and sets the options; execute calls write_tex and returns.              *)
(* used_materials is the module global of line 138: it is set when the     *)
(* module is loaded and lives as long as the process.                      *)
(***************************************************************************)
Preamble == Str(<<"\\usetikzlibrary{calc}">>)

\* The objects of the scene.
SceneObjects ==
  << [BaseObject(1, <<"A">>, "CURVE") EXCEPT
        !.world = <<0, 0, 1>>, !.location = <<0, 0, 1>>,
        !.splines = <<MkSpline("BEZIER", TRUE, 2)>>, !.materials = <<None, 1>>],
     [BaseObject(2, <<"B">>, "CURVE") EXCEPT
        !.splines = <<MkSpline("POLY", FALSE, 2)>>, !.materials = <<2>>],
     [BaseObject(3, <<"N">>, "CURVE") EXCEPT
        !.world = <<0, 0, -1>>, !.location = <<0, 0, -1>>,
        !.splines = <<MkSpline("NURBS", FALSE, 2)>>, !.materials = <<3>>],
     [BaseObject(4, <<"X">>, "CURVE") EXCEPT
        !.world = <<0, 0, 1>>, !.location = <<0, 0, 1>>,
        !.splines = <<MkSpline("BEZIER", FALSE, 1)>>, !.materials = <<4>>],
     [BaseObject(5, <<"M">>, "MESH") EXCEPT
        !.world = <<0, 0, 2>>, !.location = <<0, 0, 2>>],
     Marker(6, <<"Q">>, None, <<1, 2, 0>>),
     Marker(7, <<"P">>, 1, <<1, 0, 1>>) >>

\* The selections: lists of at most n different objects of the scene, in
\* any order.
RECURSIVE Selections(_, _)
Selections(scene, n) ==
  IF n = 0 THEN {<<>>}
  ELSE LET shorter == Selections(scene, n - 1)
       IN shorter \cup
          {Append(q, i) : q \in {r \in shorter : Len(r) = n - 1},
                          i \in 1..Len(scene)}

Distinct(q) == \A a, b \in 1..Len(q) : a # b => q[a] # q[b]

\* The options of the dialog (lines 502-534).  Those that act on one curve
\* alone keep their default value here.
ExportOptions ==
  {[USE_PLOTPATH |-> FALSE, WRAP_LINES |-> TRUE, DRAW_CURVE |-> TRUE,
    FILL_CLOSED_CURVE |-> FALSE, TRANSFORM_CURVE |-> FALSE,
    EXPORT_MATERIALS |-> m, EMPTIES |-> e, ONLY_PROPERTIES |-> FALSE,
    STANDALONE |-> st, CODE_ONLY |-> c, CLIPBOARD_OUTPUT |-> cl] :
     m \in BOOLEAN, e \in BOOLEAN, st \in BOOLEAN, c \in BOOLEAN, cl \in BOOLEAN}

Context(scene, sel, preamble) ==
  [selected_objects |-> [i \in 1..Len(sel) |-> scene[sel[i]]],
   preamble |-> preamble]

Init ==
  /\ pc = "idle"
  /\ used_materials = <<>>
  /\ first_seen = <<>>
  /\ inp = [op |-> "none"]
  /\ out = [op |-> "none"]

\* Lines 545-548 and the dialog.
invoke ==
  /\ pc = "idle"
  /\ \E sel \in {q \in Selections(SceneObjects, MaxSel) : Distinct(q)},
        o \in ExportOptions :
       inp' = [op |-> "write_tex", context |-> Context(SceneObjects, sel, Preamble),
               o |-> o, um |-> used_materials]
  /\ pc' = "dialog"
  /\ UNCHANGED <<used_materials, first_seen, out>>

\* Line 537: the call of write_tex.
execute ==
  /\ pc = "dialog"
  /\ \E sink \in IF inp.o.CLIPBOARD_OUTPUT THEN ClipboardOutcomes ELSE FileOutcomes :
       /\ out' = [op |-> "write_tex", sink |-> sink]
                    @@ write_tex(inp.context, inp.o, used_materials, sink)
       /\ used_materials' = out'.um
  /\ pc' = "returned"
  /\ UNCHANGED <<inp, first_seen>>

\* Lines 542-543: the status is printed and the operator finishes.
finish ==
  /\ pc = "returned"
  /\ pc' = "idle"
  /\ inp' = [op |-> "none"]
  /\ out' = [op |-> "none"]
  /\ UNCHANGED <<used_materials, first_seen>>

Next == invoke \/ execute \/ finish

Spec == Init /\ [][Next]_vars

(***************************************************************************)
(* The draw order: one export of a selection of curves placed at several   *)
(* depths, two pairs of them at the same depth.                            *)
(***************************************************************************)
DepthCurve(id, name, z) ==
  [BaseObject(id, name, "CURVE") EXCEPT
     !.world = <<0, 0, z>>, !.location = <<0, 0, z>>,
     !.splines = <<MkSpline("POLY", FALSE, 2)>>]

\* Depths 1, -1, 2, 1, -1 (1 stands for the 0.5 of the example).
DepthScene ==
  << DepthCurve(1, <<"a">>, 1), DepthCurve(2, <<"b">>, -1),
     DepthCurve(3, <<"c">>, 2), DepthCurve(4, <<"d">>, 1),
     DepthCurve(5, <<"e">>, -1) >>

DefaultOptions ==
  [USE_PLOTPATH |-> FALSE, WRAP_LINES |-> TRUE, DRAW_CURVE |-> TRUE,
   FILL_CLOSED_CURVE |-> FALSE, TRANSFORM_CURVE |-> FALSE,
   EXPORT_MATERIALS |-> FALSE, EMPTIES |-> FALSE, ONLY_PROPERTIES |-> FALSE,
   STANDALONE |-> TRUE, CODE_ONLY |-> FALSE, CLIPBOARD_OUTPUT |-> FALSE]

InitOrder ==
  /\ pc = "dialog"
  /\ used_materials = <<>>
  /\ first_seen = <<>>
  /\ \E sel \in {q \in Selections(DepthScene, MaxOrder) : Distinct(q)},
        code_only \in BOOLEAN :
       inp = [op |-> "write_tex", context |-> Context(DepthScene, sel, Absent),
              o |-> [DefaultOptions EXCEPT !.CODE_ONLY = code_only,
                                           !.STANDALONE = ~code_only],
              um |-> <<>>]
  /\ out = [op |-> "none"]

SpecOrder == InitOrder /\ [][execute]_vars

(***************************************************************************)
(* Reading the output.                                                     *)
(***************************************************************************)
\* The positions of the atom a in the text t, in increasing order.
Positions(t, a) ==
  LET P == {i \in 1..Len(t) : t[i] = a}
  IN [k \in 1..Cardinality(P) |->
        CHOOSE i \in P : Cardinality({j \in P : j <= i}) = k]

\* The text from position i up to the next atom `stop`, not included.
Until(t, i, stop) ==
  SubSeq(t, i, (CHOOSE j \in i..Len(t) :
                  t[j] = stop /\ \A k \in i..(j - 1) : t[k] # stop) - 1)

\* The names bound by the \tikzstyle definitions of a material block.
StyleNames(matcode) ==
  LET pos == Positions(matcode, "\\tikzstyle{")
  IN [k \in 1..Len(pos) |-> Until(matcode, pos[k] + 1, "}=")]

\* The names in the comment lines "% name" of the path code, in order.
CommentNames(code) ==
  LET pos == Positions(code, "%")
  IN [k \in 1..Len(pos) |-> Until(code, pos[k] + 2, "\n")]

\* The number of \path statements in a text.
PathCount(t) == Cardinality({i \in 1..Len(t) : t[i] = "\\path["})

Atoms(t) == {t[i] : i \in 1..Len(t)}

Range(q) == {q[i] : i \in 1..Len(q)}

WrapperTokens ==
  {"\\documentclass{article}", "\\usepackage{tikz}", "\\begin{document}",
   "\\end{document}", "\\begin{tikzpicture}", "\\end{tikzpicture}"}

(***************************************************************************)
(* C1.  Template selection: whenever CODE_ONLY is set, STANDALONE set or   *)
(* not, the document is the code-only template (the path code alone, no    *)
(* wrapper or environment token); the standalone template is used exactly  *)
(* when STANDALONE is set and CODE_ONLY is not, the fragment template      *)
(* exactly when neither is set.  The code tests STANDALONE first, so with  *)
(* both set the document is the standalone one.                            *)
(***************************************************************************)
C1_CodeOnlyTakesPrecedence ==
  (pc = "returned" /\ out.assembled) =>
    /\ inp.o.CODE_ONLY =>
         /\ out.template = "code_only"
         /\ out.s = out.code
         /\ Atoms(out.s) \cap WrapperTokens = {}
    /\ out.template = "standalone" <=> (inp.o.STANDALONE /\ ~inp.o.CODE_ONLY)
    /\ out.template = "fig" <=> (~inp.o.STANDALONE /\ ~inp.o.CODE_ONLY)

(***************************************************************************)
(* C2.  The Material Table is empty at the start of every invocation of    *)
(* write_tex, and the material block of an invocation with                 *)
(* EXPORT_MATERIALS defines only materials of curves serialized in that    *)
(* invocation.  used_materials is a module global that nothing resets, so  *)
(* a later invocation starts with, and emits, the materials of the         *)
(* earlier ones.                                                           *)
(***************************************************************************)
C2_TableFreshPerInvocation ==
  /\ pc = "dialog" => used_materials = <<>>
  /\ (pc = "returned" /\ out.assembled /\ inp.o.EXPORT_MATERIALS) =>
       Range(StyleNames(out.matcode)) \subseteq
         {tikzify(Materials[m].name) : m \in Range(out.reg)}

(***************************************************************************)
(* C3.  After any sequence of registrations, write_materials emits exactly *)
(* one \tikzstyle definition per distinct normalized material name, in the *)
(* order in which the names were first registered.                         *)
(***************************************************************************)
C3_OneDefinitionPerName ==
  (pc = "rendered" /\ ~out.raised) =>
    StyleNames(out.text) = [i \in 1..Len(first_seen) |-> first_seen[i].key]

C3_Witness ==
  /\ pc = "rendered" /\ ~out.raised
  /\ Len(first_seen) >= 2
  /\ first_seen[1].again
  /\ Len(StyleNames(out.text)) = 2

(***************************************************************************)
(* C4.  When several registered materials have the same normalized name,   *)
(* the table keeps under that name the material registered first.  The     *)
(* assignment of line 225 replaces the value, so the table holds the       *)
(* material registered last.                                               *)
(***************************************************************************)
C4_FirstMaterialKept ==
  \A i \in 1..Len(used_materials) :
    HasKey(first_seen, used_materials[i].key) =>
      used_materials[i].value =
        first_seen[KeyIndex(first_seen, used_materials[i].key)].value

(***************************************************************************)
(* C5.  The path statements of the selected curves are emitted in          *)
(* ascending order of world depth, and curves of equal depth in their      *)
(* selection order, for every selection and every selection order.         *)
(***************************************************************************)
\* The place of the curve named n in the selection.
SelIndex(n) ==
  CHOOSE i \in 1..Len(inp.context.selected_objects) :
    inp.context.selected_objects[i].name = n

DepthOf(n) == inp.context.selected_objects[SelIndex(n)].world[3]

C5_AscendingDepthStable ==
  (pc = "returned" /\ out.assembled) =>
    LET names == CommentNames(out.code)
    IN /\ Len(names) = Len(inp.context.selected_objects)
       /\ PathCount(out.code) = Len(names)
       /\ Range(names) = {inp.context.selected_objects[i].name :
                            i \in 1..Len(inp.context.selected_objects)}
       /\ \A i, j \in 1..Len(names) :
            i < j =>
              \/ DepthOf(names[i]) < DepthOf(names[j])
              \/ /\ DepthOf(names[i]) = DepthOf(names[j])
                 /\ SelIndex(names[i]) < SelIndex(names[j])

C5_Witness ==
  /\ pc = "returned" /\ out.assembled
  /\ Len(inp.context.selected_objects) = 3
  /\ [i \in 1..3 |-> inp.context.selected_objects[i].id] = <<4, 2, 1>>
  /\ CommentNames(out.code) = << <<"b">>, <<"d">>, <<"a">> >>

(***************************************************************************)
(* C6.  A curve with no supported spline (only splines of other kinds, or  *)
(* none) adds no \path statement to the path code, registers no material  *)
(* and raises no error: write_object returns only the comment line with    *)
(* the name of the curve.  Unsupported splines among supported ones are    *)
(* skipped: the result is that of the curve without them.                  *)
(***************************************************************************)
Supported(spline) == spline.type \in {"BEZIER", "POLY"}

WithoutUnsupported(obj) ==
  [obj EXCEPT !.splines = SelectSeq(obj.splines, Supported)]

C6_UnsupportedSkipped ==
  (pc = "done" /\ inp.obj.type = "CURVE") =>
    /\ (\A i \in 1..Len(inp.obj.splines) : ~Supported(inp.obj.splines[i])) =>
         /\ ~out.raised
         /\ PathCount(out.s) = 0
         /\ out.s = <<"%", " ">> \o inp.obj.name \o <<"\n">>
         /\ out.reg = <<>>
         /\ used_materials = <<>>
    /\ LET r == write_object(WithoutUnsupported(inp.obj), inp.empties, inp.o, <<>>)
       IN /\ out.raised = r.raised
          /\ out.s = r.s
          /\ out.um = r.um

C6_Witness ==
  /\ pc = "done" /\ inp.obj.type = "CURVE"
  /\ Len(inp.obj.splines) = 2
  /\ \A i \in 1..2 : inp.obj.splines[i].type = "NURBS"
  /\ inp.o.EXPORT_MATERIALS /\ inp.obj.materials # <<>>
  /\ PathCount(out.s) = 0

(***************************************************************************)
(* C7.  As stated: the option list of a curve holds the composer's 'fill'  *)
(* flag exactly once if FILL_CLOSED_CURVE is set and the curve has a       *)
(* closed Bezier or closed polyline spline, and not at all if              *)
(* FILL_CLOSED_CURVE is unset or all its supported splines are open.       *)
(* The code looks for the text 'cycle' in the path, which the plotstyle    *)
(* property can put there too.                                             *)
(***************************************************************************)
FillCount(options) ==
  Cardinality({i \in 1..Len(options) : options[i] = <<"fill">>})

HasClosedSpline(obj) ==
  \E i \in 1..Len(obj.splines) :
    Supported(obj.splines[i]) /\ obj.splines[i].use_cyclic_u

C7_FillIffClosedSpline ==
  (pc = "done" /\ out.composed) =>
    FillCount(out.options) =
      IF inp.o.FILL_CLOSED_CURVE /\ HasClosedSpline(inp.obj) THEN 1 ELSE 0

(***************************************************************************)
(* C7, amended.  The option list holds the composer's 'fill' flag exactly  *)
(* once if FILL_CLOSED_CURVE is set and the path text holds 'cycle': the   *)
(* curve has a closed Bezier or closed polyline spline, or a polyline is   *)
(* written in plot mode with a plotstyle property whose text holds         *)
(* 'cycle'.  Otherwise it holds no composer's 'fill' flag.                 *)
(***************************************************************************)
HoldsCycle(t) ==
  \E i \in 1..Len(t) :
    i + 4 <= Len(t) /\ SubSeq(t, i, i + 4) = <<"c", "y", "c", "l", "e">>

PlotStyleHoldsCycle(obj, o) ==
  /\ o.USE_PLOTPATH
  /\ \E i \in 1..Len(obj.splines) : obj.splines[i].type = "POLY"
  /\ \/ obj.plotstyle.kind = "str" /\ HoldsCycle(obj.plotstyle.text)
     \/ obj.plotstyle_game.kind = "str" /\ HoldsCycle(obj.plotstyle_game.text)

C7_FillIffCycleText ==
  (pc = "done" /\ out.composed) =>
    FillCount(out.options) =
      IF /\ inp.o.FILL_CLOSED_CURVE
         /\ HasClosedSpline(inp.obj) \/ PlotStyleHoldsCycle(inp.obj, inp.o)
      THEN 1 ELSE 0

C7_Witness ==
  /\ pc = "done" /\ out.composed
  /\ inp.o.FILL_CLOSED_CURVE
  /\ Len(inp.obj.splines) = 2
  /\ inp.obj.splines[1].type = "POLY" /\ ~inp.obj.splines[1].use_cyclic_u
  /\ inp.obj.splines[2].type = "BEZIER" /\ inp.obj.splines[2].use_cyclic_u
  /\ inp.obj.style.kind = "str"
  /\ FillCount(out.options) = 1

(***************************************************************************)
(* C8.  For a curve with one polyline p1..pn, USE_PLOTPATH and WRAP_LINES  *)
(* off, the geometry is the one line 'p1 -- ... -- pn', followed by        *)
(* ' -- p1 -- cycle' if the polyline is closed, each point written as a    *)
(* signed pair of 4-decimal numbers such as (+1.0000,+0.0000).  The        *)
(* f-string of line 325 writes (+1.0.4f,+0.0.4f) instead.                  *)
(***************************************************************************)
ExpectedPolyline(spline) ==
  LET pts == [i \in 1..Len(spline.points) |-> <<KnotStr(spline.points[i])>>]
  IN Join(<<" ", "--", " ">>,
          IF spline.use_cyclic_u THEN pts \o <<pts[1], <<"cycle">>>> ELSE pts)

C8_PolylineGeometry ==
  ( /\ pc = "done" /\ out.composed
    /\ Len(inp.obj.splines) = 1 /\ inp.obj.splines[1].type = "POLY"
    /\ ~inp.o.USE_PLOTPATH /\ ~inp.o.WRAP_LINES ) =>
    Render(out.geometry) = Render(ExpectedPolyline(inp.obj.splines[1]))

(***************************************************************************)
(* C9.  When no exportable object is selected (no object at all, or no     *)
(* curve and no top-level marker exported under EMPTIES), write_tex        *)
(* returns the error status, assembles no document, writes nothing and     *)
(* leaves the Material Table as it was.  The code tests only for an empty  *)
(* selection.                                                              *)
(***************************************************************************)
Exportable(obj, o) ==
  \/ obj.type = "CURVE"
  \/ obj.type = "Empty" /\ obj.parent = None /\ o.EMPTIES

NoneExportable ==
  \A i \in 1..Len(inp.context.selected_objects) :
    ~Exportable(inp.context.selected_objects[i], inp.o)

C9_NothingExportableAborts ==
  (pc = "returned" /\ NoneExportable) =>
    /\ out.status = "ERROR: Please select at least one curve"
    /\ ~out.assembled
    /\ ~out.wrote /\ ~out.file.exists /\ out.clipboard = <<>>
    /\ used_materials = inp.um

(***************************************************************************)
(* C10.  Every failure during an export is caught in write_tex and turned  *)
(* into the returned status: write_tex always returns a status string,     *)
(* and a failed write gives a status other than those of success.  Only    *)
(* the sink writes are guarded: an exception raised while the objects are  *)
(* serialized or the materials rendered leaves write_tex.                  *)
(***************************************************************************)
SuccessStatus == {"File sucesfully writen", "tikz_export ended ..."}

FailureStatus ==
  {"ERROR: Please select at least one curve", "Failed to write file",
   "Failed  to write to clipboard"}

C10_AlwaysReturnsStatus ==
  pc = "returned" =>
    /\ ~out.raised
    /\ out.status \in SuccessStatus \cup FailureStatus
    /\ (out.assembled /\ out.sink # "ok") => out.status \in FailureStatus

(***************************************************************************)
(* C11.  For a file export, in every outcome of write_tex the destination  *)
(* file is either fully written (the header line followed by the whole     *)
(* document) or not created at all.  The code opens the file for writing   *)
(* and then writes the header and the document into it (lines 478-481);    *)
(* the except clause only reports the failure, so a write that fails after *)
(* the open leaves the file as far as it was written.                      *)
(***************************************************************************)
C11_FileWholeOrAbsent ==
  (pc = "returned" /\ ~out.raised /\ ~inp.o.CLIPBOARD_OUTPUT) =>
    \/ ~out.file.exists
    \/ out.assembled /\ out.file.content = file_header \o out.s

(***************************************************************************)
(* C12.  For a Bezier spline with control points c1..cn (n >= 1) the       *)
(* geometry is knot c1, then for an open spline n-1 segments, the i-th to  *)
(* knot c(i+1) with controls (right handle of ci, left handle of c(i+1)),  *)
(* and no close marker; for a closed spline these n-1 segments, a segment  *)
(* back to knot c1 with controls (right handle of cn, left handle of c1),  *)
(* and the close marker.  Stated for the curves all of whose splines are   *)
(* Bezier splines: the words of the geometry are those of the splines in   *)
(* their order, with WRAP_LINES set or not.                                *)
(***************************************************************************)
BezierSegment(from, to) ==
  << <<"..">>, <<"controls">>, <<KnotStr(from.handle_right)>>, <<"and">>,
     <<KnotStr(to.handle_left)>>, <<"..">>, <<KnotStr(to.co)>> >>

ExpectedBezier(spline) ==
  LET c == spline.bezier_points
      n == Len(c)
  IN << <<KnotStr(c[1].co)>> >>
     \o Flatten([i \in 1..(n - 1) |-> BezierSegment(c[i], c[i + 1])])
     \o (IF spline.use_cyclic_u
         THEN BezierSegment(c[n], c[1]) \o << <<"--">>, <<"cycle">> >>
         ELSE <<>>)

AllBezier(obj) ==
  /\ obj.splines # <<>>
  /\ \A i \in 1..Len(obj.splines) :
       obj.splines[i].type = "BEZIER" /\ obj.splines[i].bezier_points # <<>>

C12_BezierSegments ==
  (pc = "done" /\ inp.obj.type = "CURVE" /\ AllBezier(inp.obj)) =>
    /\ out.composed
    /\ Split(ReplaceNL(out.geometry)) =
         Flatten([i \in 1..Len(inp.obj.splines) |->
                    ExpectedBezier(inp.obj.splines[i])])

C12_Witness ==
  /\ pc = "done" /\ out.composed
  /\ Len(inp.obj.splines) = 2
  /\ inp.obj.splines[1] = MkSpline("BEZIER", TRUE, 3)
  /\ inp.obj.splines[2] = MkSpline("BEZIER", FALSE, 2)
  /\ Len(Split(ReplaceNL(out.geometry))) = 32

(***************************************************************************)
(* C13.  For a curve with one polyline, USE_PLOTPATH off and WRAP_LINES    *)
(* on, the geometry has the first point on a line of its own, at most 2    *)
(* '-- point' segments on each following line, and the same points and     *)
(* separators in the same order as the geometry written with WRAP_LINES    *)
(* off.  The loop of lines 346-352 breaks the line after every third       *)
(* segment (i % 3), so a line holds up to 3 segments.                      *)
(***************************************************************************)
\* The line of the geometry that holds its i-th atom, counted from 0.
LineOf(t, i) == Cardinality({j \in 1..(i - 1) : t[j] = "\n"})

\* The number of '--' separators on line k of the geometry.
SegmentsOnLine(t, k) ==
  Cardinality({i \in 1..Len(t) : t[i] = "--" /\ LineOf(t, i) = k})

\* The points and separators of a geometry, without the layout.
Words(t) == SelectSeq(t, LAMBDA a : ~IsWS(a))

Unwrapped ==
  write_object(inp.obj, inp.empties, [inp.o EXCEPT !.WRAP_LINES = FALSE], <<>>)

WrappedPolyline ==
  /\ pc = "done" /\ out.composed
  /\ Len(inp.obj.splines) = 1 /\ inp.obj.splines[1].type = "POLY"
  /\ ~inp.o.USE_PLOTPATH /\ inp.o.WRAP_LINES

C13_FirstPointAlone ==
  WrappedPolyline =>
    /\ out.geometry[1] = CoordStr(inp.obj.splines[1].points[1])
    /\ Len(out.geometry) > 1 => out.geometry[2] = "\n"

C13_SameWords ==
  WrappedPolyline => Words(out.geometry) = Words(Unwrapped.geometry)

C13_WrappedPolyline ==
  /\ C13_FirstPointAlone
  /\ C13_SameWords
  /\ WrappedPolyline =>
       \A k \in 1..Len(out.geometry) : SegmentsOnLine(out.geometry, k) <= 2

====
